---- MODULE Spec2Model ----
(***************************************************************************)
(* Model of cloudmodel.unified: the dimension-checked quantity types of    *)
(* units.py and normalize_time_units of model.py.                          *)
(*                                                                         *)
(* Magnitudes are exact rationals [n, d] (d > 0, lowest terms), so the     *)
(* properties below are those of the arithmetic the code asks for, not of  *)
(* floating-point rounding.  Python objects live in a heap (a sequence of  *)
(* records addressed by position), so that aliasing and in-place changes   *)
(* of lists and dicts are visible.                                         *)
(***************************************************************************)
EXTENDS Integers, Sequences, FiniteSets, TLC

VARIABLES
    heap,      \* the Python objects: heap[r] is the object with reference r
    problem,   \* reference of the Problem handed to normalize_time_units
    units,     \* the target unit of the last call ("" before any call)
    result,    \* outcome of normalize_time_units(problem, units)
    result2,   \* outcome of normalizing the first result again to units
    q_cls,     \* quantity type of the last construction ("" before any)
    q_arg,     \* argument of the last construction
    q_out      \* outcome of the last construction

vars == <<heap, problem, units, result, result2, q_cls, q_arg, q_out>>

-----------------------------------------------------------------------------
(* Exact rational arithmetic for magnitudes.                               *)

Abs(x) == IF x < 0 THEN -x ELSE x

RECURSIVE GCD(_, _)
GCD(a, b) == IF b = 0 THEN a ELSE GCD(b, a % b)

Rat(n, d) ==
    LET g == GCD(Abs(n), Abs(d))
        s == IF d < 0 THEN -1 ELSE 1
    IN  [n |-> s * (n \div g), d |-> s * (d \div g)]

RMul(a, b) == Rat(a.n * b.n, a.d * b.d)
RDiv(a, b) == Rat(a.n * b.d, a.d * b.n)
Zero == [n |-> 0, d |-> 1]
One == [n |-> 1, d |-> 1]
IsZero(a) == a.n = 0

-----------------------------------------------------------------------------
(* Exceptions: an operation yields its value or a record [raised |-> e].   *)

Raise(e) == [raised |-> e]
IsRaised(r) == "raised" \in DOMAIN r

\* With(v, LAMBDA x : e) is e with x bound to v, v being computed once.
With(v, In(_)) == In(v)

-----------------------------------------------------------------------------
(* The unit registry: pint's default units that the program and its tests  *)
(* use, plus the units defined in units.py.  "" is the absent unit of a    *)
(* bare number.  A symbol outside the registry is undefined.               *)

UnitDefs ==
    [ second     |-> [dim |-> "[time]",        factor |-> [n |-> 1, d |-> 1]],
      minute     |-> [dim |-> "[time]",        factor |-> [n |-> 60, d |-> 1]],
      hour       |-> [dim |-> "[time]",        factor |-> [n |-> 3600, d |-> 1]],
      usd        |-> [dim |-> "[currency]",    factor |-> [n |-> 1, d |-> 1]],
      cores      |-> [dim |-> "[computation]", factor |-> [n |-> 1, d |-> 1]],
      millicores |-> [dim |-> "[computation]", factor |-> [n |-> 1, d |-> 1000]],
      req        |-> [dim |-> "[requests]",    factor |-> [n |-> 1, d |-> 1]],
      bit        |-> [dim |-> "",              factor |-> [n |-> 1, d |-> 1]],
      byte       |-> [dim |-> "",              factor |-> [n |-> 8, d |-> 1]],
      kibibyte   |-> [dim |-> "",              factor |-> [n |-> 8192, d |-> 1]],
      cm         |-> [dim |-> "[length]",      factor |-> [n |-> 1, d |-> 100]],
      liter      |-> [dim |-> "[length]^3",    factor |-> [n |-> 1, d |-> 1000]] ]

Registered == DOMAIN UnitDefs \cup {""}

UnitDef(sym) == IF sym = "" THEN [dim |-> "", factor |-> One] ELSE UnitDefs[sym]

\* A unit is a quotient num/den of two symbols ("" for none).
Unit(num, den) == [num |-> num, den |-> den]

IsDefined(u) == u.num \in Registered /\ u.den \in Registered

\* The dimensionality of a unit: numerator and denominator dimension, which
\* cancel when they are the same.
Dimensionality(u) ==
    LET a == UnitDef(u.num).dim
        b == UnitDef(u.den).dim
    IN  IF a = b THEN <<"", "">> ELSE <<a, b>>

\* How many base units one u is.
Factor(u) == RDiv(UnitDef(u.num).factor, UnitDef(u.den).factor)

\* A faulty parser: an unknown symbol is taken for a unit of no dimension
\* (the registry looked up only when the dimension is checked).
Quantity_unparsed(v) ==
    IF "units" \in DOMAIN v THEN v
    ELSE [magnitude |-> v.magnitude,
          units |-> Unit(IF v.num \in Registered THEN v.num ELSE "",
                         IF v.den \in Registered THEN v.den ELSE "")]

\* ureg.Quantity(v), v a quantity or a string "<magnitude> <num>/<den>" that
\* is parsed against the registry.
Quantity(v) ==
    IF "units" \in DOMAIN v THEN v
    ELSE IF ~IsDefined(Unit(v.num, v.den))
    THEN Raise("UndefinedUnitError")
    ELSE [magnitude |-> v.magnitude, units |-> Unit(v.num, v.den)]

\* The dimensionality each quantity type declares.
my_dimensionality ==
    [ Time               |-> <<"[time]", "">>,
      Storage            |-> <<"", "">>,
      RequestsPerTime    |-> <<"[requests]", "[time]">>,
      CurrencyPerTime    |-> <<"[currency]", "[time]">>,
      ComputationalUnits |-> <<"[computation]", "">>,
      Currency           |-> <<"[currency]", "">>,
      Requests           |-> <<"[requests]", "">> ]

Classes == DOMAIN my_dimensionality

\* A faulty check: every quantity passes.
check_always(obj, dimensionality) == TRUE

\* obj.check(dimensionality)
check(obj, dimensionality) == Dimensionality(obj.units) = dimensionality

\* CheckedDimensionality.__new__(cls, v)
CheckedDimensionality(cls, v) ==
    With(Quantity(v), LAMBDA obj :
        IF IsRaised(obj) THEN obj
        ELSE IF ~check(obj, my_dimensionality[cls])
             THEN Raise("DimensionalityError")
             ELSE obj)

\* A faulty conversion: the factor of the quantity's own unit is left out.
to_from_base(q, other) ==
    IF ~IsDefined(other) THEN Raise("UndefinedUnitError")
    ELSE IF Dimensionality(other) # Dimensionality(q.units)
         THEN Raise("DimensionalityError")
         ELSE [magnitude |-> RDiv(q.magnitude, Factor(other)), units |-> other]

\* Quantity.to(other): the same quantity expressed in the unit other.
to(q, other) ==
    IF ~IsDefined(other) THEN Raise("UndefinedUnitError")
    ELSE IF Dimensionality(other) # Dimensionality(q.units)
         THEN Raise("DimensionalityError")
         ELSE [magnitude |-> RMul(q.magnitude, RDiv(Factor(q.units), Factor(other))),
               units |-> other]

\* Quantity.__eq__: equal magnitudes once both are in base units.
QuantityEq(a, b) ==
    /\ Dimensionality(a.units) = Dimensionality(b.units)
    /\ RMul(a.magnitude, Factor(a.units)) = RMul(b.magnitude, Factor(b.units))

\* Quantity.__mul__ by a plain number.
QuantityMul(q, factor) ==
    [magnitude |-> RMul(q.magnitude, factor), units |-> q.units]

-----------------------------------------------------------------------------
(* The dataclasses of model.py, as heap objects.  An App is its name; a    *)
(* LimitingSet is a value inside the tuple that holds it.  Reference 0 is  *)
(* None.                                                                   *)

None == 0

LimitingSet(name, max_vms, max_cores) ==
    [name |-> name, max_vms |-> max_vms, max_cores |-> max_cores]

WorkloadSeries(description, values, time_slot_size, intra_slot_distribution) ==
    [kind |-> "WorkloadSeries", description |-> description, values |-> values,
     time_slot_size |-> time_slot_size,
     intra_slot_distribution |-> intra_slot_distribution]

InstanceClass(name, price, cores, mem, limit, limiting_sets, is_reserved, is_private) ==
    [kind |-> "InstanceClass", name |-> name, price |-> price, cores |-> cores,
     mem |-> mem, limit |-> limit, limiting_sets |-> limiting_sets,
     is_reserved |-> is_reserved, is_private |-> is_private]

ContainerClass(name, cores, mem, app, limit) ==
    [kind |-> "ContainerClass", name |-> name, cores |-> cores, mem |-> mem,
     app |-> app, limit |-> limit]

System(name, ics, ccs, perfs) ==
    [kind |-> "System", name |-> name, ics |-> ics, ccs |-> ccs, perfs |-> perfs]

Problem(name, system, workloads, sched_time_size, version) ==
    [kind |-> "Problem", name |-> name, system |-> system, workloads |-> workloads,
     sched_time_size |-> sched_time_size, version |-> version]

\* Python's list and dict: a dict keeps its items in insertion order.
List(items) == [kind |-> "list", items |-> items]
Dict(items) == [kind |-> "dict", items |-> items]

\* A new object: it gets the next free reference.
Alloc(h, obj) == [heap |-> Append(h, obj), ref |-> Len(h) + 1]

\* The first position of seq whose element satisfies P, 0 when there is none.
Least(S) == IF S = {} THEN 0 ELSE CHOOSE i \in S : \A j \in S : i <= j
FirstIndex(seq, P(_)) == Least({i \in 1..Len(seq) : P(seq[i])})

\* The generated __eq__ of the frozen dataclasses: field by field, quantities
\* by Quantity.__eq__; an object is equal to itself.
LimitingSetsEq(a, b) ==
    /\ Len(a) = Len(b)
    /\ \A i \in 1..Len(a) :
        /\ a[i].name = b[i].name
        /\ a[i].max_vms = b[i].max_vms
        /\ QuantityEq(a[i].max_cores, b[i].max_cores)

InstanceClassEq(h, r1, r2) ==
    \/ r1 = r2
    \/ /\ h[r1].name = h[r2].name
       /\ QuantityEq(h[r1].price, h[r2].price)
       /\ QuantityEq(h[r1].cores, h[r2].cores)
       /\ QuantityEq(h[r1].mem, h[r2].mem)
       /\ h[r1].limit = h[r2].limit
       /\ LimitingSetsEq(h[r1].limiting_sets, h[r2].limiting_sets)
       /\ h[r1].is_reserved = h[r2].is_reserved
       /\ h[r1].is_private = h[r2].is_private

ContainerClassEq(h, r1, r2) ==
    \/ r1 = r2
    \/ /\ r1 # None /\ r2 # None
       /\ h[r1].name = h[r2].name
       /\ QuantityEq(h[r1].cores, h[r2].cores)
       /\ QuantityEq(h[r1].mem, h[r2].mem)
       /\ h[r1].app = h[r2].app
       /\ h[r1].limit = h[r2].limit

\* Equality of two keys (ic, cc, app) of a performance table.
PerfKeyEq(h, k1, k2) ==
    /\ InstanceClassEq(h, k1.ic, k2.ic)
    /\ ContainerClassEq(h, k1.cc, k2.cc)
    /\ k1.app = k2.app

\* d[key] = value: the value of an equal key is replaced in place, a new key
\* goes to the end.
SetItem(items, key, value, Eq(_, _)) ==
    With(FirstIndex(items, LAMBDA it : Eq(it.key, key)), LAMBDA at :
        IF at = 0
        THEN Append(items, [key |-> key, value |-> value])
        ELSE [items EXCEPT ![at].value = value])

\* list.index(x): the first position holding an object equal to x.
index(h, list, x) ==
    With(FirstIndex(h[list].items, LAMBDA r : InstanceClassEq(h, r, x)), LAMBDA at :
        IF at = 0 THEN Raise("ValueError") ELSE [position |-> at])

-----------------------------------------------------------------------------
(* normalize_time_units(problem, units).  An operation on the heap yields  *)
(* [heap |-> the heap after it, ...] or [raised |-> e, heap |-> ...].      *)

RaiseIn(h, r) == [raised |-> r.raised, heap |-> h]

\* The units the conversions ask for: units, f"usd/{units}", f"req/{units}".
TimeUnits(u) == Unit(u, "")
\* A faulty price unit: usd/hour whatever the target.
PriceUnits_hour(u) == Unit("usd", "hour")

PriceUnits(u) == Unit("usd", u)
PerfUnits(u) == Unit("req", u)

\* Time(units): the quantity parsed from the bare unit symbol.
OneSlot(u) == CheckedDimensionality("Time", [magnitude |-> One, num |-> u, den |-> ""])

\* A faulty factor: one over the slot in units, which the magnitude changes.
SlotFactor_duration(time_slot_size, u) ==
    IF ~IsZero(time_slot_size.magnitude)
    THEN With(to(time_slot_size, TimeUnits(u)), LAMBDA converted :
             IF IsRaised(converted) THEN converted
             ELSE IF IsZero(converted.magnitude) THEN Raise("ZeroDivisionError")
             ELSE RDiv(One, converted.magnitude))
    ELSE Zero

\* A faulty factor: the two magnitudes the other way round.
SlotFactor_inverted(time_slot_size, u) ==
    IF ~IsZero(time_slot_size.magnitude)
    THEN With(to(time_slot_size, TimeUnits(u)), LAMBDA converted :
             IF IsRaised(converted) THEN converted
             ELSE RDiv(converted.magnitude, time_slot_size.magnitude))
    ELSE Zero

\* A faulty factor: no case for a slot of magnitude 0.
SlotFactor_unguarded(time_slot_size, u) ==
    With(to(time_slot_size, TimeUnits(u)), LAMBDA converted :
        IF IsRaised(converted) THEN converted
        ELSE IF IsZero(converted.magnitude) THEN Raise("ZeroDivisionError")
        ELSE RDiv(time_slot_size.magnitude, converted.magnitude))

\* The factor of a series: magnitude of the slot over its magnitude in units,
\* and 0 for a slot of magnitude 0.
SlotFactor(time_slot_size, u) ==
    IF ~IsZero(time_slot_size.magnitude)
    THEN With(to(time_slot_size, TimeUnits(u)), LAMBDA converted :
             IF IsRaised(converted) THEN converted
             ELSE IF IsZero(converted.magnitude) THEN Raise("ZeroDivisionError")
             ELSE RDiv(time_slot_size.magnitude, converted.magnitude))
    ELSE Zero

\* tuple(wl * factor for wl in wl_series.values)
ScaleValues(values, factor) ==
    [i \in 1..Len(values) |-> QuantityMul(values[i], factor)]

\* workloads = {}
\* A faulty start of the loop: the dict being filled is the input's.
NewWorkloads_alias(h, p) == [heap |-> h, ref |-> h[p].workloads]

\* workloads = {}
NewWorkloads(h, p) == Alloc(h, Dict(<<>>))

\* WorkloadSeries(wl_series.description, values, Time(units),
\*                wl_series.intra_slot_distribution)
NormalizedSeries(wl_series, values, slot) ==
    WorkloadSeries(wl_series.description, values, slot,
                   wl_series.intra_slot_distribution)

\* workloads[app] = series, series a new object
StoreSeries(h, workloads, app, series) ==
    With(Alloc(h, series), LAMBDA new :
        [new.heap EXCEPT ![workloads].items =
            SetItem(@, app, new.ref, LAMBDA a, b : a = b)])

\* The loop over problem.workloads.items(), from item i on; workloads is the
\* reference of the dict being filled.
RECURSIVE WorkloadsLoop(_, _, _, _, _)
WorkloadsLoop(h, p, workloads, u, i) ==
    IF i > Len(h[h[p].workloads].items) THEN [heap |-> h]
    ELSE
    With(h[h[p].workloads].items[i], LAMBDA item :
    With(SlotFactor(h[item.value].time_slot_size, u), LAMBDA factor :
        IF IsRaised(factor) THEN RaiseIn(h, factor)
        ELSE
        With(OneSlot(u), LAMBDA slot :
            IF IsRaised(slot) THEN RaiseIn(h, slot)
            ELSE WorkloadsLoop(
                     StoreSeries(h, workloads, item.key,
                         NormalizedSeries(h[item.value],
                             ScaleValues(h[item.value].values, factor), slot)),
                     p, workloads, u, i + 1))))

\* A faulty copy: the price gets the converted magnitude and keeps its unit.
NormalizedInstanceClass_rescaled(ic, u) ==
    With(to(ic.price, PriceUnits(u)), LAMBDA price :
        IF IsRaised(price) THEN price
        ELSE InstanceClass(ic.name,
                           [magnitude |-> price.magnitude, units |-> ic.price.units],
                           ic.cores, ic.mem, ic.limit,
                           ic.limiting_sets, ic.is_reserved, ic.is_private))

\* A faulty copy: the two flags are left to their defaults.
NormalizedInstanceClass_defaults(ic, u) ==
    With(to(ic.price, PriceUnits(u)), LAMBDA price :
        IF IsRaised(price) THEN price
        ELSE InstanceClass(ic.name, price, ic.cores, ic.mem, ic.limit,
                           ic.limiting_sets, FALSE, FALSE))

\* InstanceClass(name=ic.name, price=ic.price.to(f"usd/{units}"), ...)
NormalizedInstanceClass(ic, u) ==
    With(to(ic.price, PriceUnits(u)), LAMBDA price :
        IF IsRaised(price) THEN price
        ELSE InstanceClass(ic.name, price, ic.cores, ic.mem, ic.limit,
                           ic.limiting_sets, ic.is_reserved, ic.is_private))

\* ics.append(ic), ic a new object
AppendNew(h, ics, ic) ==
    With(Alloc(h, ic), LAMBDA new :
        [new.heap EXCEPT ![ics].items = Append(@, new.ref)])

\* The loop over problem.system.ics, from position i on; ics is the reference
\* of the list being filled.
RECURSIVE IcsLoop(_, _, _, _, _)
IcsLoop(h, p, ics, u, i) ==
    IF i > Len(h[h[h[p].system].ics].items) THEN [heap |-> h]
    ELSE
    With(NormalizedInstanceClass(h[h[h[h[p].system].ics].items[i]], u), LAMBDA ic :
        IF IsRaised(ic) THEN RaiseIn(h, ic)
        ELSE IcsLoop(AppendNew(h, ics, ic), p, ics, u, i + 1))

\* A faulty key: the instance class of the input's key.
NewPerfKey_old(h, ics, ic_idx, k) == k

\* The key perfs[ics[ic_idx], cc, app] is stored under.
NewPerfKey(h, ics, ic_idx, k) ==
    [ic |-> h[ics].items[ic_idx], cc |-> k.cc, app |-> k.app]

\* perfs[key] = perf
StorePerf(h, perfs, key, perf) ==
    [h EXCEPT ![perfs].items =
        SetItem(@, key, perf, LAMBDA a, b : PerfKeyEq(h, a, b))]

\* The loop over problem.system.perfs.items(), from item i on; ics is the new
\* list of instance classes and perfs the dict being filled.
RECURSIVE PerfsLoop(_, _, _, _, _, _)
PerfsLoop(h, p, ics, perfs, u, i) ==
    IF i > Len(h[h[h[p].system].perfs].items) THEN [heap |-> h]
    ELSE
    With(h[h[h[p].system].perfs].items[i], LAMBDA item :
    With(index(h, h[h[p].system].ics, item.key.ic), LAMBDA ic_idx :
        IF IsRaised(ic_idx) THEN RaiseIn(h, ic_idx)
        ELSE
        With(to(item.value, PerfUnits(u)), LAMBDA perf :
            IF IsRaised(perf) THEN RaiseIn(h, perf)
            ELSE PerfsLoop(
                     StorePerf(h, perfs,
                               NewPerfKey(h, ics, ic_idx.position, item.key), perf),
                     p, ics, perfs, u, i + 1))))

\* sys = System(...); return Problem(...)
NewProblem(h, p, workloads, ics, perfs, sched_time_size) ==
    With(Alloc(h, System(h[h[p].system].name, ics, h[h[p].system].ccs, perfs)),
         LAMBDA sys :
    With(Alloc(sys.heap, Problem(h[p].name, sys.ref, workloads, sched_time_size,
                                 h[p].version)),
         LAMBDA new : [heap |-> new.heap, ref |-> new.ref]))

normalize_time_units(h, p, u) ==
    With(to(h[p].sched_time_size, TimeUnits(u)), LAMBDA sched_time_size :
    IF IsRaised(sched_time_size) THEN RaiseIn(h, sched_time_size)
    ELSE
    With(NewWorkloads(h, p), LAMBDA workloads :
    With(WorkloadsLoop(workloads.heap, p, workloads.ref, u, 1), LAMBDA h1 :
    IF IsRaised(h1) THEN h1
    ELSE
    With(Alloc(h1.heap, List(<<>>)), LAMBDA ics :
    With(IcsLoop(ics.heap, p, ics.ref, u, 1), LAMBDA h2 :
    IF IsRaised(h2) THEN h2
    ELSE
    With(Alloc(h2.heap, Dict(<<>>)), LAMBDA perfs :
    With(PerfsLoop(perfs.heap, p, ics.ref, perfs.ref, u, 1), LAMBDA h3 :
    IF IsRaised(h3) THEN h3
    ELSE NewProblem(h3.heap, p, workloads.ref, ics.ref, perfs.ref,
                    sched_time_size))))))))

-----
(* The Problems the calls are made on.                                     *)

MaxIcs == 2      \* instance classes in a System
MaxPerfs == 2    \* entries of a performance table
MaxValues == 2   \* values of a WorkloadSeries

SeqsUpTo(S, n) == UNION {[1..k -> S] : k \in 0..n}

\* cls("<n>/<d> <num>/<den>"), a quantity built through its type.
Q(cls, n, d, num, den) ==
    CheckedDimensionality(cls, [magnitude |-> Rat(n, d), num |-> num, den |-> den])

Apps == {"a0", "a1"}

\* sched_time_size, slot durations, requests, performances and instance
\* classes to choose from; the dataclasses do not check their fields, so a
\* field may hold a quantity of another type.
Scheds ==
    << Q("Time", 15, 1, "minute", ""), Q("Time", 2, 1, "hour", ""),
       Q("Currency", 1, 1, "usd", "") >>
Slots ==
    << Q("Time", 0, 1, "hour", ""), Q("Time", 2, 1, "hour", ""),
       Q("Time", 90, 1, "second", ""), Q("Currency", 1, 1, "usd", ""),
       Q("Currency", 0, 1, "usd", ""), Q("Time", 1, 1, "second", "") >>
RequestsValues ==
    << Q("Requests", 1, 1, "req", ""), Q("Requests", 3, 1, "req", "") >>
PerfValues ==
    << Q("RequestsPerTime", 1, 1, "req", "second"),
       Q("RequestsPerTime", 90, 1, "req", "minute"),
       Q("Requests", 5, 1, "req", "") >>

\* The first two are equal (__eq__) and priced in different units.
InstanceClasses ==
    LET ls == LimitingSet("r1", 3, Q("ComputationalUnits", 8, 1, "cores", ""))
    IN  << InstanceClass("m1", Q("CurrencyPerTime", 1, 1, "usd", "minute"),
                         Q("ComputationalUnits", 2, 1, "cores", ""),
                         Q("Storage", 4, 1, "kibibyte", ""), 5, <<ls>>, TRUE, FALSE),
           InstanceClass("m1", Q("CurrencyPerTime", 60, 1, "usd", "hour"),
                         Q("ComputationalUnits", 2, 1, "cores", ""),
                         Q("Storage", 4, 1, "kibibyte", ""), 5, <<ls>>, TRUE, FALSE),
           InstanceClass("m2", Q("CurrencyPerTime", 2, 1, "usd", "hour"),
                         Q("ComputationalUnits", 500, 1, "millicores", ""),
                         Q("Storage", 8, 1, "byte", ""), 0, <<>>, FALSE, TRUE),
           InstanceClass("m3", Q("Currency", 1, 1, "usd", ""),
                         Q("ComputationalUnits", 1, 1, "cores", ""),
                         Q("Storage", 1, 1, "kibibyte", ""), 1, <<>>, FALSE, FALSE) >>

\* An instance class that is in no list, though a list may hold an equal one.
ExtraInstanceClass == InstanceClasses[3]

TheContainerClass ==
    ContainerClass("c1", Q("ComputationalUnits", 250, 1, "millicores", ""),
                   Q("Storage", 1, 1, "kibibyte", ""), "a0", 2)

\* A Problem is described by
\*   ics:   for each instance class of the list, its position in InstanceClasses,
\*   perfs: for each entry of the performance table, the instance class of its
\*          key: a position of ics, or Len(ics) + 1 for the extra instance class,
\*   wls:   for each workload, [app, values, slot], positions in RequestsValues
\*          and Slots,
\*   sched: the position of sched_time_size in Scheds.
\* The key of entry i is (ic, the container class, "a0"), or (ic, None, "a1")
\* when an earlier entry is for the same object; its value is PerfValues[i],
\* taken cyclically.
IcsListRef(inp) == Len(inp.ics) + 3
CcRef(inp) == Len(inp.ics) + 2
PerfsRef(inp) == Len(inp.ics) + 5
Again(inp, i) == \E j \in 1..(i - 1) : inp.perfs[j] = inp.perfs[i]
Build(inp) ==
    LET n == Len(inp.ics)
        w == Len(inp.wls)
        l == IcsListRef(inp)
    IN  [i \in 1..n |-> InstanceClasses[inp.ics[i]]]
        \o <<ExtraInstanceClass, TheContainerClass>>
        \o << List([i \in 1..n |-> i]),
              List(<<CcRef(inp)>>),
              Dict([i \in 1..Len(inp.perfs) |->
                      [key |-> [ic |-> inp.perfs[i],
                                cc |-> IF Again(inp, i) THEN None ELSE CcRef(inp),
                                app |-> IF Again(inp, i) THEN "a1" ELSE "a0"],
                       value |-> PerfValues[((i - 1) % Len(PerfValues)) + 1]]]),
              System("sys", l, l + 1, l + 2) >>
        \o [i \in 1..w |->
               WorkloadSeries(IF inp.wls[i].app = "a0" THEN "first" ELSE "second",
                              [k \in 1..Len(inp.wls[i].values) |->
                                  RequestsValues[inp.wls[i].values[k]]],
                              Slots[inp.wls[i].slot],
                              IF inp.wls[i].app = "a0" THEN "uniform" ELSE "exponential")]
        \o << Dict([i \in 1..w |-> [key |-> inp.wls[i].app, value |-> l + 3 + i]]),
              Problem("prob", l + 3, l + 4 + w, Scheds[inp.sched], "0.2.0") >>

\* A dict has no two equal keys.
IsDict(h, d, Eq(_, _)) ==
    \A i, j \in 1..Len(h[d].items) :
        i # j => ~Eq(h[d].items[i].key, h[d].items[j].key)

\* No workloads, one for a0, or one for a1 followed by one for a0.
WorkloadsSet ==
    { wls \in SeqsUpTo([app : Apps,
                        values : SeqsUpTo(1..Len(RequestsValues), MaxValues),
                        slot : 1..Len(Slots)], 2) :
        /\ Len(wls) >= 1 => wls[Len(wls)].app = "a0"
        /\ Len(wls) = 2 => wls[1] = [app |-> "a1", values |-> <<1>>, slot |-> 3] }

SystemsSet ==
    UNION { { [ics |-> ics, perfs |-> perfs] :
                perfs \in SeqsUpTo(1..(Len(ics) + 1), MaxPerfs) } :
            ics \in SeqsUpTo(1..Len(InstanceClasses), MaxIcs) }

\* The inputs vary one part of a Problem at a time: its workloads and
\* scheduling window around a fixed System, or its System around fixed
\* workloads.
Inputs ==
    { [ics |-> <<3>>, perfs |-> <<1>>, wls |-> wls, sched |-> sched] :
        wls \in WorkloadsSet, sched \in 1..Len(Scheds) }
    \cup
    { [ics |-> s.ics, perfs |-> s.perfs,
       wls |-> <<[app |-> "a1", values |-> <<1>>, slot |-> 3],
                 [app |-> "a0", values |-> <<2>>, slot |-> 2]>>, sched |-> 1] :
        s \in SystemsSet }

\* The target units: time units, a unit of another dimension, an undefined one.
TargetUnits == {"hour", "minute", "second", "cm", "eur"}

NotCalled == [called |-> FALSE]

Init ==
    /\ \E inp \in Inputs :
        /\ heap = Build(inp)
        /\ IsDict(heap, PerfsRef(inp), LAMBDA a, b : PerfKeyEq(heap, a, b))
    /\ problem = Len(heap)
    /\ units = ""
    /\ result = NotCalled
    /\ result2 = NotCalled
    /\ q_cls = ""
    /\ q_arg = NotCalled
    /\ q_out = NotCalled

\* What a call leaves to its caller: the exception or the returned reference.
Outcome(r) == IF IsRaised(r) THEN Raise(r.raised) ELSE [ref |-> r.ref]

\* result = normalize_time_units(problem, units)
Normalize(u) ==
    /\ units = ""
    /\ With(normalize_time_units(heap, problem, u), LAMBDA r :
            /\ heap' = r.heap
            /\ result' = Outcome(r))
    /\ units' = u
    /\ UNCHANGED <<problem, result2, q_cls, q_arg, q_out>>

\* result2 = normalize_time_units(result, units), after a first call that returned
NormalizeAgain ==
    /\ units # ""
    /\ ~IsRaised(result)
    /\ result2 = NotCalled
    /\ With(normalize_time_units(heap, result.ref, units), LAMBDA r :
            /\ heap' = r.heap
            /\ result2' = Outcome(r))
    /\ UNCHANGED <<problem, units, result, q_cls, q_arg, q_out>>

-----------------------------------------------------------------------------
(* Quantities built on their own.                                          *)

\* The symbols a string may name: the registry's and two it does not hold.
Symbols == Registered \cup {"eur", "furlong"}
Denominators == {"", "second", "hour", "cm", "eur"}
Magnitudes == {Zero, Rat(20, 1), Rat(1, 2)}

Arguments ==
    [magnitude : Magnitudes, num : Symbols, den : Denominators]
    \cup { [magnitude |-> m, units |-> Unit(num, den)] :
             m \in Magnitudes, num \in Registered,
             den \in Denominators \cap Registered }

\* q_out = cls(v), the one construction of a behaviour
Construct(cls, v) ==
    /\ q_cls = ""
    /\ q_cls' = cls
    /\ q_arg' = v
    /\ q_out' = CheckedDimensionality(cls, v)
    /\ UNCHANGED <<heap, problem, units, result, result2>>

InitUnits ==
    /\ heap = <<>>
    /\ problem = None
    /\ units = ""
    /\ result = NotCalled
    /\ result2 = NotCalled
    /\ q_cls = ""
    /\ q_arg = NotCalled
    /\ q_out = NotCalled

NextUnits == \E cls \in Classes, v \in Arguments : Construct(cls, v)

SpecUnits == InitUnits /\ [][NextUnits]_vars

-----------------------------------------------------------------------------
Next ==
    \/ \E u \in TargetUnits : Normalize(u)
    \/ NormalizeAgain

Spec == Init /\ [][Next]_vars

-----------------------------------------------------------------------------
(* Properties of the quantity types (under SpecUnits).                     *)

\* The unit of the argument of a construction.
ArgUnits(v) == IF "units" \in DOMAIN v THEN v.units ELSE Unit(v.num, v.den)

\* A unit of the dimension each quantity type is for.
RequiredUnit ==
    [ Time               |-> Unit("second", ""),
      Currency           |-> Unit("usd", ""),
      ComputationalUnits |-> Unit("cores", ""),
      Storage            |-> Unit("byte", ""),
      Requests           |-> Unit("req", ""),
      RequestsPerTime    |-> Unit("req", "second"),
      CurrencyPerTime    |-> Unit("usd", "second") ]

\* C1: constructing a quantity type from a value whose registered unit has a
\* dimension other than the type's fails with DimensionalityError and yields
\* no quantity; with the type's dimension it yields the quantity.
DimensionEnforced ==
    (q_cls # "" /\ IsDefined(ArgUnits(q_arg))) =>
        IF Dimensionality(ArgUnits(q_arg)) = Dimensionality(RequiredUnit[q_cls])
        THEN /\ ~IsRaised(q_out)
             /\ q_out.magnitude = q_arg.magnitude
             /\ q_out.units = ArgUnits(q_arg)
        ELSE /\ IsRaised(q_out)
             /\ q_out.raised = "DimensionalityError"

\* ComputationalUnits("20 liter") is refused, ComputationalUnits("20 cores") is built.
DimensionEnforcedWitness ==
    /\ q_cls = "ComputationalUnits"
    /\ q_arg = [magnitude |-> Rat(20, 1), num |-> "liter", den |-> ""]
    /\ IsRaised(q_out)
    /\ q_out.raised = "DimensionalityError"

\* The currency symbols a caller may try.
CurrencySymbols == {"usd", "eur"}

\* C2: constructing any quantity type from a string with a symbol that is not
\* in the registry fails with UndefinedUnitError; of the currency symbols the
\* registry holds only usd.
UndefinedUnitRejected ==
    /\ \A sym \in CurrencySymbols : sym \in Registered <=> sym = "usd"
    /\ (q_cls # "" /\ ~IsDefined(ArgUnits(q_arg))) =>
           /\ IsRaised(q_out)
           /\ q_out.raised = "UndefinedUnitError"

\* CurrencyPerTime("20 eur / hour")
UndefinedUnitRejectedWitness ==
    /\ q_cls = "CurrencyPerTime"
    /\ q_arg = [magnitude |-> Rat(20, 1), num |-> "eur", den |-> "hour"]
    /\ IsRaised(q_out)
    /\ q_out.raised = "UndefinedUnitError"

-----------------------------------------------------------------------------
(* Properties of normalize_time_units (under Spec).                        *)

Called == units # ""
Returned == "ref" \in DOMAIN result
Returned2 == "ref" \in DOMAIN result2

\* The parts of the Problem at reference p.
SystemOf(p) == heap[heap[p].system]
IcsOf(p) == heap[SystemOf(p).ics].items
PerfsOf(p) == heap[SystemOf(p).perfs].items
WorkloadsOf(p) == heap[heap[p].workloads].items

\* Two quantities are the same amount: equal once in the same (base) unit.
SameQuantity(a, b) ==
    /\ Dimensionality(a.units) = Dimensionality(b.units)
    /\ RMul(a.magnitude, Factor(a.units)) = RMul(b.magnitude, Factor(b.units))

\* The position of the instance class r in the ics list of the Problem p: the
\* first one that holds r or an instance class equal to it (0: none).
PositionIn(p, r) ==
    Least({i \in 1..Len(IcsOf(p)) : InstanceClassEq(heap, IcsOf(p)[i], r)})

\* C3: the result has sched_time_size in units, every price in usd/units and
\* every performance in req/units, each the same amount as in the input (the
\* i-th price against the i-th price, a performance against the one of the
\* corresponding key).
AmountsPreserved ==
    Returned =>
        /\ heap[result.ref].sched_time_size.units = Unit(units, "")
        /\ SameQuantity(heap[result.ref].sched_time_size,
                        heap[problem].sched_time_size)
        /\ Len(IcsOf(result.ref)) = Len(IcsOf(problem))
        /\ \A i \in 1..Len(IcsOf(problem)) :
            /\ heap[IcsOf(result.ref)[i]].price.units = Unit("usd", units)
            /\ SameQuantity(heap[IcsOf(result.ref)[i]].price,
                            heap[IcsOf(problem)[i]].price)
        /\ \A j \in 1..Len(PerfsOf(result.ref)) :
            PerfsOf(result.ref)[j].value.units = Unit("req", units)
        /\ \A j \in 1..Len(PerfsOf(problem)) :
            \E i \in 1..Len(PerfsOf(result.ref)) :
                /\ PerfsOf(result.ref)[i].key =
                       [ic |-> IcsOf(result.ref)[PositionIn(problem,
                                                   PerfsOf(problem)[j].key.ic)],
                        cc |-> PerfsOf(problem)[j].key.cc,
                        app |-> PerfsOf(problem)[j].key.app]
                /\ SameQuantity(PerfsOf(result.ref)[i].value,
                                PerfsOf(problem)[j].value)

\* 15 minutes become 0.25 hour, with prices and performances to convert.
AmountsPreservedWitness ==
    /\ Returned
    /\ units = "hour"
    /\ heap[problem].sched_time_size = Q("Time", 15, 1, "minute", "")
    /\ heap[result.ref].sched_time_size = Q("Time", 1, 4, "hour", "")
    /\ Len(IcsOf(problem)) = 2
    /\ Len(PerfsOf(problem)) = 2
    /\ heap[IcsOf(problem)[1]].price.units = Unit("usd", "minute")

\* The series of the input and of the result, item by item.
SeriesIn(j) == heap[WorkloadsOf(problem)[j].value]
SeriesOut(j) == heap[WorkloadsOf(result.ref)[j].value]
SameApps ==
    /\ Len(WorkloadsOf(result.ref)) = Len(WorkloadsOf(problem))
    /\ \A j \in 1..Len(WorkloadsOf(problem)) :
        WorkloadsOf(result.ref)[j].key = WorkloadsOf(problem)[j].key

\* C4: every series of the result has a slot in units that is the same
\* duration as the slot of the series of the input.
SlotDurationPreserved ==
    Returned =>
        /\ SameApps
        /\ \A j \in 1..Len(WorkloadsOf(problem)) :
            /\ SeriesOut(j).time_slot_size.units = Unit(units, "")
            /\ SameQuantity(SeriesOut(j).time_slot_size, SeriesIn(j).time_slot_size)

\* The values of series j of the result are those of the input times factor,
\* in the same number and order.
ValuesScaled(j, factor) ==
    /\ Len(SeriesOut(j).values) = Len(SeriesIn(j).values)
    /\ \A k \in 1..Len(SeriesIn(j).values) :
        /\ SeriesOut(j).values[k].units = SeriesIn(j).values[k].units
        /\ SeriesOut(j).values[k].magnitude =
               RMul(SeriesIn(j).values[k].magnitude, factor)

\* The slot of series j of the input expressed in units, as a magnitude.
SlotInUnits(j) == to(SeriesIn(j).time_slot_size, Unit(units, "")).magnitude

RestConverts ==
    /\ ~IsRaised(to(heap[problem].sched_time_size, Unit(units, "")))
    /\ ~IsRaised(OneSlot(units))
    /\ \A i \in 1..Len(IcsOf(problem)) :
        ~IsRaised(to(heap[IcsOf(problem)[i]].price, Unit("usd", units)))
    /\ \A j \in 1..Len(PerfsOf(problem)) :
        /\ PositionIn(problem, PerfsOf(problem)[j].key.ic) # 0
        /\ ~IsRaised(to(PerfsOf(problem)[j].value, Unit("req", units)))

\* C6: a series whose slot has magnitude 0 gets values that are all zero, and
\* raises nothing: no call ends in a division error, and a call whose other
\* conversions succeed returns when every slot is zero.
ZeroSlotGivesZeros ==
    /\ (Called /\ IsRaised(result)) => result.raised # "ZeroDivisionError"
    /\ (/\ Called
        /\ RestConverts
        /\ \A j \in 1..Len(WorkloadsOf(problem)) :
              IsZero(SeriesIn(j).time_slot_size.magnitude)) => Returned
    /\ Returned =>
        \A j \in 1..Len(WorkloadsOf(problem)) :
            IsZero(SeriesIn(j).time_slot_size.magnitude) =>
                /\ Len(SeriesOut(j).values) = Len(SeriesIn(j).values)
                /\ \A k \in 1..Len(SeriesOut(j).values) :
                    IsZero(SeriesOut(j).values[k].magnitude)

\* A series of <<3 req, 1 req>> on slots of 0 hours is normalized to <<0, 0>>.
ZeroSlotGivesZerosWitness ==
    /\ Returned
    /\ \E j \in 1..Len(WorkloadsOf(problem)) :
        /\ SeriesIn(j).time_slot_size = Q("Time", 0, 1, "hour", "")
        /\ SeriesIn(j).values = <<Q("Requests", 3, 1, "req", ""),
                                  Q("Requests", 1, 1, "req", "")>>
        /\ SeriesOut(j).values = <<Q("Requests", 0, 1, "req", ""),
                                   Q("Requests", 0, 1, "req", "")>>

\* C7: a second call on the result of a first one, to the same units, returns
\* a Problem with the same sched_time_size, the same workloads (apps, values
\* and slots), the same prices and the same performance table (equal keys in
\* the same order, the same values).
Idempotent ==
    result2 # NotCalled =>
        /\ Returned2
        /\ heap[result2.ref].sched_time_size = heap[result.ref].sched_time_size
        /\ Len(WorkloadsOf(result2.ref)) = Len(WorkloadsOf(result.ref))
        /\ \A j \in 1..Len(WorkloadsOf(result.ref)) :
            /\ WorkloadsOf(result2.ref)[j].key = WorkloadsOf(result.ref)[j].key
            /\ heap[WorkloadsOf(result2.ref)[j].value].values =
                   heap[WorkloadsOf(result.ref)[j].value].values
            /\ heap[WorkloadsOf(result2.ref)[j].value].time_slot_size =
                   heap[WorkloadsOf(result.ref)[j].value].time_slot_size
        /\ Len(IcsOf(result2.ref)) = Len(IcsOf(result.ref))
        /\ \A i \in 1..Len(IcsOf(result.ref)) :
            heap[IcsOf(result2.ref)[i]].price = heap[IcsOf(result.ref)[i]].price
        /\ Len(PerfsOf(result2.ref)) = Len(PerfsOf(result.ref))
        /\ \A j \in 1..Len(PerfsOf(result.ref)) :
            /\ PerfKeyEq(heap, PerfsOf(result2.ref)[j].key, PerfsOf(result.ref)[j].key)
            /\ PerfsOf(result2.ref)[j].key.ic \in
                   {IcsOf(result2.ref)[i] : i \in 1..Len(IcsOf(result2.ref))}
            /\ PerfsOf(result2.ref)[j].value = PerfsOf(result.ref)[j].value

\* A second call to minutes on a Problem that had slots of 2 hours, a price in
\* usd/hour and a performance in req/second.
IdempotentWitness ==
    /\ Returned2
    /\ units = "minute"
    /\ Len(PerfsOf(result2.ref)) >= 1
    /\ PerfsOf(problem)[1].value.units = Unit("req", "second")
    /\ \E i \in 1..Len(IcsOf(problem)) :
        heap[IcsOf(problem)[i]].price = Q("CurrencyPerTime", 2, 1, "usd", "hour")
    /\ \E j \in 1..Len(WorkloadsOf(problem)) :
        /\ SeriesIn(j).time_slot_size = Q("Time", 2, 1, "hour", "")
        /\ Len(SeriesIn(j).values) >= 1

\* The objects a Problem is made of: itself, its System, the ics and ccs
\* lists, the perfs table, the workloads mapping, the series, the instance
\* classes of the list and of the keys, the container classes.
ObjectsOf(p) ==
    {p, heap[p].system, heap[p].workloads,
     SystemOf(p).ics, SystemOf(p).ccs, SystemOf(p).perfs}
    \cup {WorkloadsOf(p)[j].value : j \in 1..Len(WorkloadsOf(p))}
    \cup {IcsOf(p)[i] : i \in 1..Len(IcsOf(p))}
    \cup {heap[SystemOf(p).ccs].items[i] : i \in 1..Len(heap[SystemOf(p).ccs].items)}
    \cup {PerfsOf(p)[j].key.ic : j \in 1..Len(PerfsOf(p))}
    \cup {PerfsOf(p)[j].key.cc : j \in 1..Len(PerfsOf(p))}

\* The objects the claim says are new in the returned Problem p.
FreshOf(p) ==
    {p, heap[p].system, heap[p].workloads, SystemOf(p).ics, SystemOf(p).perfs}
    \cup {WorkloadsOf(p)[j].value : j \in 1..Len(WorkloadsOf(p))}

\* C8: no call, returning or raising, changes an object that existed before
\* it, the input Problem and all it reaches among them; and the Problem, the
\* System, the ics list, the perfs table, the workloads mapping and the series
\* of a returned Problem are none of the objects of its input.
InputNotMutated ==
    /\ [][/\ Len(heap') >= Len(heap)
          /\ \A r \in 1..Len(heap) : heap'[r] = heap[r]]_vars
    /\ [](Returned => FreshOf(result.ref) \cap ObjectsOf(problem) = {})
    /\ [](Returned2 => FreshOf(result2.ref) \cap ObjectsOf(result.ref) = {})

\* A call has returned on a Problem with two instance classes, two
\* performances and two series.
InputNotMutatedWitness ==
    /\ Returned
    /\ Len(IcsOf(problem)) = 2
    /\ Len(PerfsOf(problem)) = 2
    /\ Len(WorkloadsOf(problem)) = 2
    /\ Len(IcsOf(result.ref)) = 2
    /\ Len(WorkloadsOf(result.ref)) = 2

\* C9: the table of the result has one entry per entry of the input's, in the
\* same order; the key of each is (ics'[i], cc, app), i the position of the
\* input key's instance class in the input's ics list, ics' the ics list of
\* the result; so every instance class of a key is an element of ics'.
PerfKeysRewritten ==
    Returned =>
        /\ Len(PerfsOf(result.ref)) = Len(PerfsOf(problem))
        /\ \A j \in 1..Len(PerfsOf(problem)) :
            /\ PositionIn(problem, PerfsOf(problem)[j].key.ic) \in
                   1..Len(IcsOf(result.ref))
            /\ PerfsOf(result.ref)[j].key =
                   [ic |-> IcsOf(result.ref)[PositionIn(problem,
                                               PerfsOf(problem)[j].key.ic)],
                    cc |-> PerfsOf(problem)[j].key.cc,
                    app |-> PerfsOf(problem)[j].key.app]
        /\ \A j \in 1..Len(PerfsOf(result.ref)) :
            PerfsOf(result.ref)[j].key.ic \in
                {IcsOf(result.ref)[i] : i \in 1..Len(IcsOf(result.ref))}

\* Two entries, one under an instance class that is not an object of the list
\* but equal to its second element: its key becomes the second element of the
\* new list.
PerfKeysRewrittenWitness ==
    /\ Returned
    /\ Len(PerfsOf(problem)) = 2
    /\ \E j \in 1..2 :
        /\ \A i \in 1..Len(IcsOf(problem)) :
              IcsOf(problem)[i] # PerfsOf(problem)[j].key.ic
        /\ PositionIn(problem, PerfsOf(problem)[j].key.ic) = 2
        /\ PerfsOf(result.ref)[j].key.ic = IcsOf(result.ref)[2]

\* The fields of an instance class but its price.
OtherFields(ic) ==
    [name |-> ic.name, cores |-> ic.cores, mem |-> ic.mem, limit |-> ic.limit,
     limiting_sets |-> ic.limiting_sets, is_reserved |-> ic.is_reserved,
     is_private |-> ic.is_private]

\* C10: the ics list of the result has the length and order of the input's and
\* each instance class all the fields of the input's but the price; the ccs
\* list, the name of the System, the name and version of the Problem, the apps
\* of the workloads and each series' description and intra_slot_distribution
\* are the input's.
OnlyTimeQuantitiesChange ==
    Returned =>
        /\ Len(IcsOf(result.ref)) = Len(IcsOf(problem))
        /\ \A i \in 1..Len(IcsOf(problem)) :
            OtherFields(heap[IcsOf(result.ref)[i]]) =
                OtherFields(heap[IcsOf(problem)[i]])
        /\ SystemOf(result.ref).ccs = SystemOf(problem).ccs
        /\ SystemOf(result.ref).name = SystemOf(problem).name
        /\ heap[result.ref].name = heap[problem].name
        /\ heap[result.ref].version = heap[problem].version
        /\ SameApps
        /\ \A j \in 1..Len(WorkloadsOf(problem)) :
            /\ SeriesOut(j).description = SeriesIn(j).description
            /\ SeriesOut(j).intra_slot_distribution =
                   SeriesIn(j).intra_slot_distribution

\* A reserved and a private instance class with limiting sets, and two series
\* with descriptions and distributions of their own, through a call that
\* changes the price.
OnlyTimeQuantitiesChangeWitness ==
    /\ Returned
    /\ Len(WorkloadsOf(problem)) = 2
    /\ SeriesIn(1).intra_slot_distribution # SeriesIn(2).intra_slot_distribution
    /\ \E i \in 1..Len(IcsOf(problem)) :
        /\ heap[IcsOf(problem)[i]].is_reserved
        /\ heap[IcsOf(problem)[i]].limiting_sets # <<>>
        /\ heap[IcsOf(result.ref)[i]].price # heap[IcsOf(problem)[i]].price
    /\ \E i \in 1..Len(IcsOf(problem)) : heap[IcsOf(problem)[i]].is_private

-----------------------------------------------------------------------------
(* Failures of normalize_time_units (under Spec).                          *)

\* The registered units of time.
IsTimeUnit(u) ==
    /\ u \in Registered
    /\ Dimensionality(Unit(u, "")) = my_dimensionality.Time

\* Every quantity of a kind the call converts has the dimension of its type.
SchedIsTime == check(heap[problem].sched_time_size, my_dimensionality.Time)
SlotsAreTime ==
    \A j \in 1..Len(WorkloadsOf(problem)) :
        check(SeriesIn(j).time_slot_size, my_dimensionality.Time)
PricesAreRates ==
    \A i \in 1..Len(IcsOf(problem)) :
        check(heap[IcsOf(problem)[i]].price, my_dimensionality.CurrencyPerTime)
PerfsAreRates ==
    \A j \in 1..Len(PerfsOf(problem)) :
        check(PerfsOf(problem)[j].value, my_dimensionality.RequestsPerTime)

\* C11: a call with a registered unit that is not a unit of time, or on a
\* Problem one of whose converted quantities (sched_time_size, a slot, a
\* price, a performance) has not the dimension its conversion requires, raises
\* DimensionalityError and returns no Problem.
DimensionFailure ==
    (/\ Called
     /\ units \in Registered
     /\ \/ ~IsTimeUnit(units)
        \/ ~SchedIsTime
        \/ ~SlotsAreTime
        \/ ~PricesAreRates
        \/ ~PerfsAreRates)
    => /\ IsRaised(result)
       /\ result.raised = "DimensionalityError"
       /\ ~Returned

\* C12: a call with a unit of time on a Problem whose sched_time_size and
\* slots have the dimension of time returns a Problem, also when an instance
\* class of a key of the performance table is not in the ics list.  Stated
\* here for Problems whose prices and performances are rates as well, which
\* the claim does not even ask for.
TotalOnTimeProblems ==
    (/\ Called
     /\ IsTimeUnit(units)
     /\ SchedIsTime
     /\ SlotsAreTime
     /\ PricesAreRates
     /\ PerfsAreRates)
    => Returned

-----------------------------------------------------------------------------
(* The entities that bear a computation capacity, built on their own.      *)

MaxEntities == 2   \* entities built in a behaviour

\* A magnitude that is not finite: float("inf").
Inf == [n |-> 1, d |-> 0]

\* The capacities to build with: negative, zero, positive and infinite
\* magnitudes, in cores, in millicores and in a unit of another dimension.
CapacityArguments ==
    [magnitude : {Rat(-1, 1), Rat(-1, 2), Zero, Rat(2, 1), Inf},
     num : {"cores", "millicores", "usd"}, den : {""}]

CapacityKinds == {"LimitingSet", "InstanceClass", "ContainerClass"}

\* The entity of a kind with the capacity cores, its other fields fixed.
Entity(kind, cores) ==
    IF kind = "LimitingSet" THEN LimitingSet("r1", 3, cores)
    ELSE IF kind = "InstanceClass"
    THEN InstanceClass("m1", Q("CurrencyPerTime", 1, 1, "usd", "minute"), cores,
                       Q("Storage", 4, 1, "kibibyte", ""), 5, <<>>, FALSE, FALSE)
    ELSE ContainerClass("c1", cores, Q("Storage", 1, 1, "kibibyte", ""), "a0", 2)

\* kind(..., ComputationalUnits(v), ...): the dataclass stores what it is given
NewEntity(kind, v) ==
    /\ Len(heap) < MaxEntities
    /\ q_cls' = kind
    /\ q_arg' = v
    /\ With(CheckedDimensionality("ComputationalUnits", v), LAMBDA cores :
            IF IsRaised(cores)
            THEN /\ q_out' = cores
                 /\ heap' = heap
            ELSE /\ q_out' = [ref |-> Len(heap) + 1]
                 /\ heap' = Append(heap, Entity(kind, cores)))
    /\ UNCHANGED <<problem, units, result, result2>>

NextCapacity == \E kind \in CapacityKinds, v \in CapacityArguments : NewEntity(kind, v)

SpecCapacity == InitUnits /\ [][NextCapacity]_vars

\* The capacity an entity holds, and its magnitude in millicores.
CapacityOf(entity) ==
    IF "max_cores" \in DOMAIN entity THEN entity.max_cores ELSE entity.cores
Millicores(q) == to(q, Unit("millicores", "")).magnitude

IsFinite(m) == m.d # 0
InRange(m) == IsFinite(m) /\ m.n >= 0

\* C13: building an entity with a computation quantity raises nothing; when
\* the magnitude in millicores is negative or not finite the entity holds a
\* capacity of zero; so every entity holds a finite capacity that is not
\* negative.
CapacityClamped ==
    /\ (/\ q_cls \in CapacityKinds
        /\ UnitDef(q_arg.num).dim = "[computation]") =>
           /\ ~IsRaised(q_out)
           /\ ~InRange(Millicores(Quantity(q_arg))) =>
                  IsZero(Millicores(CapacityOf(heap[q_out.ref])))
    /\ \A r \in 1..Len(heap) : InRange(Millicores(CapacityOf(heap[r])))

-----------------------------------------------------------------------------
(* Conversions on their own: q.to(u1).to(u2) next to q.to(u2).             *)

\* The quantities to convert and the units to convert them to: units of
\* each dimension the types declare, one of another dimension and one the
\* registry does not hold.
ToQuantities ==
    { Q("Time", 1, 1, "hour", ""), Q("Time", 90, 1, "second", ""),
      Q("Time", 0, 1, "minute", ""),
      Q("RequestsPerTime", 1, 1, "req", "second"),
      Q("RequestsPerTime", 1, 3, "req", "hour"),
      Q("CurrencyPerTime", 1, 1, "usd", "minute"),
      Q("ComputationalUnits", 1, 1, "cores", ""),
      Q("ComputationalUnits", 250, 1, "millicores", ""),
      Q("Storage", 4, 1, "kibibyte", ""),
      Q("Currency", 1, 2, "usd", "") }

ToUnits ==
    { Unit(num, "") : num \in {"second", "minute", "hour", "usd", "cores",
                               "millicores", "bit", "byte", "kibibyte", "cm",
                               "eur"} }
    \cup { Unit(num, den) : num \in {"usd", "req"},
                            den \in {"second", "minute", "hour"} }

InitTo ==
    /\ \E q \in ToQuantities : heap = <<q>>
    /\ problem = None
    /\ units = ""
    /\ result = NotCalled
    /\ result2 = NotCalled
    /\ q_cls = ""
    /\ q_arg = <<>>
    /\ q_out = NotCalled

\* result = heap[r].to(u): a quantity returned is a new object; q_arg keeps
\* the units asked for so far.
Convert(r, u) ==
    /\ With(to(heap[r], u), LAMBDA out :
            IF IsRaised(out)
            THEN /\ result' = out
                 /\ heap' = heap
            ELSE With(Alloc(heap, out), LAMBDA new :
                     /\ result' = [ref |-> new.ref]
                     /\ heap' = new.heap))
    /\ q_arg' = Append(q_arg, u)
    /\ UNCHANGED <<problem, units, result2, q_cls, q_out>>

\* q.to(u1)
ToFirst(u1) == Len(q_arg) = 0 /\ Convert(1, u1)

\* q.to(u1).to(u2)
ToSecond(u2) == Len(q_arg) = 1 /\ Len(heap) = 2 /\ Convert(2, u2)

\* q.to(u2)
ToDirect == Len(q_arg) = 2 /\ Len(heap) = 3 /\ Convert(1, q_arg[2])

NextTo ==
    \/ \E u1 \in ToUnits : ToFirst(u1)
    \/ \E u2 \in ToUnits : ToSecond(u2)
    \/ ToDirect

SpecTo == InitTo /\ [][NextTo]_vars

\* The conversions the tests spell out: quantity, unit, expected magnitude.
ConversionExamples ==
    { <<Q("Time", 1, 1, "hour", ""), Unit("minute", ""), Rat(60, 1)>>,
      <<Q("RequestsPerTime", 1, 1, "req", "second"), Unit("req", "minute"), Rat(60, 1)>>,
      <<Q("CurrencyPerTime", 1, 1, "usd", "minute"), Unit("usd", "hour"), Rat(60, 1)>>,
      <<Q("ComputationalUnits", 1, 1, "cores", ""), Unit("millicores", ""), Rat(1000, 1)>> }

\* C14: q.to(u1).to(u2) is q.to(u2), magnitude and unit, for units u1 and u2
\* of the dimension of q, and both are returned whenever u1 and u2 are such
\* units; the conversions of the tests give 60, 60, 60 and 1000; a conversion
\* changes no quantity that existed before it and returns a new one.
ConversionComposes ==
    /\ [](Len(heap) = 4 => heap[3] = heap[4])
    /\ [](\A k \in 1..Len(q_arg) :
            (\A i \in 1..k :
                /\ IsDefined(q_arg[i])
                /\ Dimensionality(q_arg[i]) = Dimensionality(heap[1].units))
            => Len(heap) >= k + 1)
    /\ [](\A e \in ConversionExamples :
            (Len(heap) >= 2 /\ heap[1] = e[1] /\ q_arg[1] = e[2]) =>
                heap[2].magnitude = e[3])
    /\ [][/\ \A r \in 1..Len(heap) : heap'[r] = heap[r]
          /\ "ref" \in DOMAIN result' => result'.ref = Len(heap) + 1]_vars

\* 90 seconds to hours and on to minutes: 1/40 hour, then 3/2 minute, which
\* is what 90 seconds to minutes gives.
ConversionComposesWitness ==
    /\ Len(heap) = 4
    /\ heap[1] = Q("Time", 90, 1, "second", "")
    /\ q_arg = <<Unit("hour", ""), Unit("minute", ""), Unit("minute", "")>>
    /\ heap[2] = [magnitude |-> Rat(1, 40), units |-> Unit("hour", "")]
    /\ heap[3] = [magnitude |-> Rat(3, 2), units |-> Unit("minute", "")]
    /\ heap[4] = heap[3]

-----------------------------------------------------------------------------
(* The factor of a series and the units (under Spec).                      *)

\* C15: the values of a series whose slot magnitude is not zero are multiplied
\* by the length of one units over the length of one unit of the slot, a
\* number that the magnitude of the slot has no part in.
FactorFromUnitsOnly ==
    Returned =>
        /\ SameApps
        /\ \A j \in 1..Len(WorkloadsOf(problem)) :
            ~IsZero(SeriesIn(j).time_slot_size.magnitude) =>
                ValuesScaled(j, RDiv(Factor(Unit(units, "")),
                                     Factor(SeriesIn(j).time_slot_size.units)))

\* Series with slots of 90 seconds and of 1 second, normalized to minutes, are
\* both multiplied by 60: 1 req becomes 60 req and 3 req becomes 180 req.
FactorFromUnitsOnlyWitness ==
    /\ Returned
    /\ units = "minute"
    /\ Len(WorkloadsOf(problem)) = 2
    /\ SeriesIn(1).time_slot_size = Q("Time", 90, 1, "second", "")
    /\ SeriesIn(2).time_slot_size = Q("Time", 1, 1, "second", "")
    /\ SeriesIn(1).values = <<Q("Requests", 1, 1, "req", "")>>
    /\ SeriesOut(1).values = <<Q("Requests", 60, 1, "req", "")>>
    /\ SeriesIn(2).values = <<Q("Requests", 3, 1, "req", "")>>
    /\ SeriesOut(2).values = <<Q("Requests", 180, 1, "req", "")>>

====
